---- MODULE Spec2Model ----
(***************************************************************************)
(* Model of triton::arch::Architecture (src/libtriton/arch/architecture.cpp)*)
(* : the owner of at most one CPU model, the forwarding surface guarded by  *)
(* `if (!this->cpu)`, and the two multi-instruction disassembly loops.      *)
(*                                                                          *)
(* The concrete CPU classes (x86Cpu, x8664Cpu, AArch64Cpu, Arm32Cpu) are    *)
(* not part of architecture.cpp; the operators named Cpu... model the       *)
(* CpuInterface capability set they provide.                                *)
(***************************************************************************)
EXTENDS Integers, Naturals, Sequences, FiniteSets, TLC

(***************************************************************************)
(* Widths and bounds                                                        *)
(***************************************************************************)
\* width of triton::uint64 addresses, reduced; address arithmetic wraps
AddrBits == 2
\* width of triton::uint8, reduced
ByteBits == 2
\* size of the lookahead window read at every disassembly step
LookAhead == 16
\* most addresses that hold a concrete value under Spec
MaxDefined == 1
\* most addresses that hold a concrete value in a memory image of SpecDriver
MaxImage == 3
\* largest count passed to disassembly(addr, count)
MaxCount == 2
\* most instructions collected by one disassembly call (caps a run that
\* never ends)
MaxRet == 4

AddrMod == 2 ^ AddrBits
ByteMod == 2 ^ ByteBits
Addr    == 0 .. (AddrMod - 1)
Bytes   == 0 .. (ByteMod - 1)
Undef   == -1
RegVals == {0, 1}

(***************************************************************************)
(* triton::arch::architecture_e                                             *)
(***************************************************************************)
ARCH_INVALID == "ARCH_INVALID"
ARCH_AARCH64 == "ARCH_AARCH64"
ARCH_ARM32   == "ARCH_ARM32"
ARCH_X86     == "ARCH_X86"
ARCH_X86_64  == "ARCH_X86_64"
\* any other value of the enum's underlying type
ARCH_OTHER   == "ARCH_OTHER"

SupportedTags == {ARCH_X86_64, ARCH_X86, ARCH_AARCH64, ARCH_ARM32}
Tags          == SupportedTags \cup {ARCH_INVALID, ARCH_OTHER}

(***************************************************************************)
(* Outcome of a call: a returned value or a thrown exception                *)
(***************************************************************************)
Return(v) == [kind |-> "ok", cls |-> "-", msg |-> "-", val |-> v]

Throw(c, m) == [kind |-> "throw", cls |-> c, msg |-> m, val |-> <<>>]

\* triton::exceptions::Architecture("...: You must define an architecture.")
MustDefine == Throw("Architecture", "You must define an architecture.")

Void == <<>>

(***************************************************************************)
(* CpuInterface: the capability set of a concrete CPU model                 *)
(***************************************************************************)
RegTable(v) ==
  CASE v = ARCH_X86     -> {"x86.eip", "x86.esp", "x86.zf"}
    [] v = ARCH_X86_64  -> {"x86.rip", "x86.rsp", "x86.zf"}
    [] v = ARCH_AARCH64 -> {"aarch64.pc", "aarch64.sp", "aarch64.z"}
    [] v = ARCH_ARM32   -> {"arm32.pc", "arm32.sp", "arm32.z"}
    [] OTHER            -> {}

AllRegIds == UNION {RegTable(v) : v \in SupportedTags} \cup {"invalid"}

CpuPc(v) ==
  CASE v = ARCH_X86     -> "x86.eip"
    [] v = ARCH_X86_64  -> "x86.rip"
    [] v = ARCH_AARCH64 -> "aarch64.pc"
    [] OTHER            -> "arm32.pc"

CpuSp(v) ==
  CASE v = ARCH_X86     -> "x86.esp"
    [] v = ARCH_X86_64  -> "x86.rsp"
    [] v = ARCH_AARCH64 -> "aarch64.sp"
    [] OTHER            -> "arm32.sp"

CpuFlags(v) == RegTable(v) \ {CpuPc(v), CpuSp(v)}

CpuGprSize(v) == IF v \in {ARCH_X86, ARCH_ARM32} THEN 4 ELSE 8

CpuEndianness(v) == "LE_ENDIANNESS"

ArmFamily == {ARCH_AARCH64, ARCH_ARM32}

EmptyMem == [a \in Addr |-> Undef]

\* this->cpu == nullptr
NoCpu ==
  [variant |-> "nullptr", mem |-> EmptyMem, regs |-> [r \in {} |-> 0],
   thumb |-> FALSE, excl |-> FALSE]

\* a freshly constructed model of variant v: nothing defined, registers zero
CpuNew(v) ==
  [variant |-> v, mem |-> EmptyMem, regs |-> [r \in RegTable(v) |-> 0],
   thumb |-> FALSE, excl |-> FALSE]

\* clear(): concrete memory and registers back to their power-on defaults
CpuClear(c) ==
  [c EXCEPT !.mem = EmptyMem, !.regs = [r \in RegTable(c.variant) |-> 0]]

CpuIsFlag(c, id) == id \in CpuFlags(c.variant)

CpuIsRegister(c, id) == id \in (RegTable(c.variant) \ CpuFlags(c.variant))

CpuIsRegisterValid(c, id) == id \in RegTable(c.variant)

\* Thumb mode exists on ARM32 only; the other models ignore the request
CpuSetThumb(c, state) ==
  IF c.variant = ARCH_ARM32 THEN [c EXCEPT !.thumb = state] ELSE c

\* exclusive (load/store-exclusive) access exists in the ARM family only
CpuSetMemoryExclusiveAccess(c, state) ==
  IF c.variant \in ArmFamily THEN [c EXCEPT !.excl = state] ELSE c

CpuGetRegister(c, id) ==
  IF id \in RegTable(c.variant)
    THEN Return(id)
    ELSE Throw("Architecture", "Invalid register id")

CpuGetParentRegister(c, id) == CpuGetRegister(c, id)

CpuGetConcreteMemoryValue(c, a) ==
  IF c.mem[a] = Undef THEN 0 ELSE c.mem[a]

CpuGetConcreteMemoryAreaValue(c, base, size) ==
  [i \in 1 .. size |-> CpuGetConcreteMemoryValue(c, (base + i - 1) % AddrMod)]

CpuIsConcreteMemoryValueDefined(c, base, size) ==
  \A i \in 0 .. (size - 1) : c.mem[(base + i) % AddrMod] # Undef

CpuSetConcreteMemoryValue(c, a, v) == [c EXCEPT !.mem[a] = v]

\* the bytes of values written one after the other from base on
RECURSIVE CpuSetConcreteMemoryAreaValue(_, _, _)
CpuSetConcreteMemoryAreaValue(c, base, values) ==
  IF values = <<>> THEN c
  ELSE CpuSetConcreteMemoryAreaValue(
         CpuSetConcreteMemoryValue(c, base, Head(values)),
         (base + 1) % AddrMod, Tail(values))

CpuClearConcreteMemoryValue(c, base, size) ==
  [c EXCEPT !.mem =
     [a \in Addr |->
        IF \E i \in 0 .. (size - 1) : (base + i) % AddrMod = a
          THEN Undef ELSE c.mem[a]]]

\* little-endian value of the bytes [addr, addr + size)
RECURSIVE LeValue(_)
LeValue(bytes) ==
  IF bytes = <<>> THEN 0 ELSE Head(bytes) + ByteMod * LeValue(Tail(bytes))

RECURSIVE LeBytes(_, _)
LeBytes(value, size) ==
  IF size = 0 THEN <<>>
  ELSE <<value % ByteMod>> \o LeBytes(value \div ByteMod, size - 1)

CpuGetConcreteMemoryValueMem(c, ma) ==
  LeValue(CpuGetConcreteMemoryAreaValue(c, ma.addr, ma.size))

CpuSetConcreteMemoryValueMem(c, ma, value) ==
  CpuSetConcreteMemoryAreaValue(c, ma.addr, LeBytes(value, ma.size))

CpuGetConcreteRegisterValue(c, id) == c.regs[id]

CpuSetConcreteRegisterValue(c, id, value) == [c EXCEPT !.regs[id] = value]

(***************************************************************************)
(* The decoder behind CpuInterface::disassembly(inst).  It looks at the    *)
(* raw bytes of the instruction and fills in size and control-flow class,  *)
(* or throws.  Opcode (first byte, modulo 4):                              *)
(*   0  an instruction of size 0, not control flow                         *)
(*   1  an instruction of size 1, not control flow                         *)
(*   2  an instruction of size 2, not control flow; its operand byte must  *)
(*      not be 3, or the decoder throws                                    *)
(*   3  an instruction of size 1, control flow                             *)
(***************************************************************************)
Instruction(addr, opcodes) ==
  [addr |-> addr, opcodes |-> opcodes, size |-> 0, cf |-> FALSE]

DecodeFails(opcodes) == opcodes[1] % 4 = 2 /\ opcodes[2] % 4 = 3

DecodeSize(opcodes) ==
  CASE opcodes[1] % 4 = 0 -> 0
    [] opcodes[1] % 4 = 1 -> 1
    [] opcodes[1] % 4 = 2 -> 2
    [] OTHER              -> 1

DecodeControlFlow(opcodes) == opcodes[1] % 4 = 3

CpuDisassembly(c, inst) ==
  IF DecodeFails(inst.opcodes)
    THEN Throw("Disassembly", "Failed to disassemble the given code.")
    ELSE Return([inst EXCEPT !.size = DecodeSize(inst.opcodes),
                             !.cf = DecodeControlFlow(inst.opcodes)])

VARIABLES arch, cpu, pc, frame, last

vars == <<arch, cpu, pc, frame, last>>


(***************************************************************************)
(* Architecture: the state of the object                                    *)
(*   arch   this->arch                                                      *)
(*   cpu    this->cpu (std::unique_ptr<CpuInterface>), NoCpu when null      *)
(*   pc     where the caller is: "idle", or inside one of the two loops     *)
(*   frame  the locals of the disassembly call in progress (or of the last  *)
(*          one that ended): addr, count, ret, and the number of times the  *)
(*          decoder was invoked                                             *)
(*   last   the last call of a non-const method or of a disassembly loop    *)
(*          that ended, with its outcome                                    *)
(***************************************************************************)
Call(op, arg, out) ==
  [op |-> op, arg |-> arg, kind |-> out.kind, cls |-> out.cls,
   msg |-> out.msg, val |-> out.val]

NoFrame == [start |-> 0, addr |-> 0, count |-> 0, ret |-> <<>>, ndecode |-> 0]

\* Architecture::Architecture
Init ==
  /\ arch = ARCH_INVALID
  /\ cpu = NoCpu
  /\ pc = "idle"
  /\ frame = NoFrame
  /\ last = Call("Architecture", Void, Return(Void))

\* the test `this->cpu` / `!this->cpu`
HasCpu == cpu.variant # "nullptr"

(***************************************************************************)
(* const methods: each is a function of the state                           *)
(***************************************************************************)
getArchitecture == Return(arch)

getEndianness ==
  IF ~HasCpu THEN MustDefine ELSE Return(CpuEndianness(cpu.variant))

getCpuInstance ==
  IF ~HasCpu THEN Throw("Architecture", "CPU undefined.") ELSE Return(cpu)

isValid == IF arch = ARCH_INVALID THEN Return(FALSE) ELSE Return(TRUE)

isFlag(regId) ==
  IF ~HasCpu THEN Return(FALSE) ELSE Return(CpuIsFlag(cpu, regId))

isFlagReg(reg) == isFlag(reg)

isRegister(regId) ==
  IF ~HasCpu THEN Return(FALSE) ELSE Return(CpuIsRegister(cpu, regId))

isRegisterReg(reg) == isRegister(reg)

isRegisterValid(regId) ==
  IF ~HasCpu THEN Return(FALSE) ELSE Return(CpuIsRegisterValid(cpu, regId))

isRegisterValidReg(reg) == isRegisterValid(reg)

isThumb == IF ~HasCpu THEN Return(FALSE) ELSE Return(cpu.thumb)

isMemoryExclusiveAccess == IF ~HasCpu THEN Return(FALSE) ELSE Return(cpu.excl)

numberOfRegisters ==
  IF ~HasCpu THEN Return(0) ELSE Return(Cardinality(RegTable(cpu.variant)))

gprSize == IF ~HasCpu THEN Return(0) ELSE Return(CpuGprSize(cpu.variant))

gprBitSize ==
  IF ~HasCpu THEN Return(0) ELSE Return(8 * CpuGprSize(cpu.variant))

getAllRegisters ==
  IF ~HasCpu THEN MustDefine ELSE Return(RegTable(cpu.variant))

getParentRegisters ==
  IF ~HasCpu THEN MustDefine ELSE Return(RegTable(cpu.variant))

getProgramCounter ==
  IF ~HasCpu THEN MustDefine ELSE Return(CpuPc(cpu.variant))

getStackPointer ==
  IF ~HasCpu THEN MustDefine ELSE Return(CpuSp(cpu.variant))

getRegister(id) ==
  IF ~HasCpu THEN MustDefine ELSE CpuGetRegister(cpu, id)

getRegisterByName(name) ==
  IF ~HasCpu THEN MustDefine ELSE CpuGetRegister(cpu, name)

getParentRegister(reg) ==
  IF ~HasCpu THEN MustDefine ELSE CpuGetParentRegister(cpu, reg)

getParentRegisterById(id) ==
  IF ~HasCpu THEN MustDefine ELSE CpuGetParentRegister(cpu, id)

\* disassembly(Instruction&): the decoded instruction, or what cpu throws
disassembly(inst) ==
  IF ~HasCpu THEN MustDefine ELSE CpuDisassembly(cpu, inst)

getConcreteMemoryValue(addr) ==
  IF ~HasCpu THEN MustDefine ELSE Return(CpuGetConcreteMemoryValue(cpu, addr))

getConcreteMemoryValueMem(mem) ==
  IF ~HasCpu THEN MustDefine
  ELSE Return(CpuGetConcreteMemoryValueMem(cpu, mem))

getConcreteMemoryAreaValue(baseAddr, size) ==
  IF ~HasCpu THEN MustDefine
  ELSE Return(CpuGetConcreteMemoryAreaValue(cpu, baseAddr, size))

getConcreteRegisterValue(reg) ==
  IF ~HasCpu THEN MustDefine
  ELSE Return(CpuGetConcreteRegisterValue(cpu, reg))

isConcreteMemoryValueDefinedMem(mem) ==
  IF ~HasCpu THEN MustDefine
  ELSE Return(CpuIsConcreteMemoryValueDefined(cpu, mem.addr, mem.size))

\* isConcreteMemoryValueDefined defaulting to false without a model, the way
\* the capability queries do
isConcreteMemoryValueDefined_defaults(baseAddr, size) ==
  IF ~HasCpu THEN Return(FALSE)
  ELSE Return(CpuIsConcreteMemoryValueDefined(cpu, baseAddr, size))

isConcreteMemoryValueDefined(baseAddr, size) ==
  IF ~HasCpu THEN MustDefine
  ELSE Return(CpuIsConcreteMemoryValueDefined(cpu, baseAddr, size))


(***************************************************************************)
(* non-const methods: one action each                                       *)
(***************************************************************************)
Defined(c) == {a \in Addr : c.mem[a] # Undef}

\* CpuClass with the x8664Cpu class constructed in the ARCH_X86 case too
CpuClass_x86As64(tag) == IF tag = ARCH_X86 THEN ARCH_X86_64 ELSE tag

\* the class the switch constructs for a supported tag
CpuClass(tag) == tag

\* NewNothrow handing back the model already held when it is of the class
\* asked for, instead of constructing a new one
NewNothrow_reuse(tag, allocOk) ==
  IF ~allocOk THEN NoCpu
  ELSE IF cpu.variant = CpuClass(tag) THEN cpu
  ELSE CpuNew(CpuClass(tag))

\* new(std::nothrow) Class(callbacks): a model, or nullptr when the
\* allocation fails
NewNothrow(tag, allocOk) == IF allocOk THEN CpuNew(CpuClass(tag)) ELSE NoCpu

\* setArchitecture that reports a failed allocation with the message of the
\* default case
setArchitecture_sameMessage(tag, allocOk) ==
  /\ pc = "idle"
  /\ IF tag \in SupportedTags
       THEN LET p == NewNothrow(tag, allocOk) IN
            /\ cpu' = p
            /\ IF p = NoCpu
                 THEN /\ arch' = arch
                      /\ last' = Call("setArchitecture", tag,
                             Throw("Architecture", "Architecture not supported."))
                 ELSE /\ arch' = tag
                      /\ last' = Call("setArchitecture", tag, Return(Void))
       ELSE /\ last' = Call("setArchitecture", tag,
                            Throw("Architecture", "Architecture not supported."))
            /\ UNCHANGED <<arch, cpu>>
  /\ UNCHANGED <<pc, frame>>

\* setArchitecture whose default case lacks the throw and falls through to
\* `this->arch = arch`
setArchitecture_noThrow(tag, allocOk) ==
  /\ pc = "idle"
  /\ IF tag \in SupportedTags
       THEN LET p == NewNothrow(tag, allocOk) IN
            /\ cpu' = p
            /\ IF p = NoCpu
                 THEN /\ arch' = arch
                      /\ last' = Call("setArchitecture", tag,
                                      Throw("Architecture", "Not enough memory."))
                 ELSE /\ arch' = tag
                      /\ last' = Call("setArchitecture", tag, Return(Void))
       ELSE /\ arch' = tag
            /\ last' = Call("setArchitecture", tag, Return(Void))
            /\ UNCHANGED cpu
  /\ UNCHANGED <<pc, frame>>

setArchitecture(tag, allocOk) ==
  /\ pc = "idle"
  /\ IF tag \in SupportedTags
       THEN \* this->cpu.reset(p) releases the model held so far, then the
            \* null test decides between the throw and `this->arch = arch`
            LET p == NewNothrow(tag, allocOk) IN
            /\ cpu' = p
            /\ IF p = NoCpu
                 THEN /\ arch' = arch
                      /\ last' = Call("setArchitecture", tag,
                                      Throw("Architecture", "Not enough memory."))
                 ELSE /\ arch' = tag
                      /\ last' = Call("setArchitecture", tag, Return(Void))
       ELSE /\ last' = Call("setArchitecture", tag,
                            Throw("Architecture", "Architecture not supported."))
            /\ UNCHANGED <<arch, cpu>>
  /\ UNCHANGED <<pc, frame>>

\* clearArchitecture taken for deselection: releases the model and resets
\* the tag
clearArchitecture_deselects ==
  /\ pc = "idle"
  /\ IF ~HasCpu
       THEN /\ last' = Call("clearArchitecture", Void, MustDefine)
            /\ UNCHANGED <<arch, cpu>>
       ELSE /\ cpu' = NoCpu
            /\ arch' = ARCH_INVALID
            /\ last' = Call("clearArchitecture", Void, Return(Void))
  /\ UNCHANGED <<pc, frame>>

clearArchitecture ==
  /\ pc = "idle"
  /\ IF ~HasCpu
       THEN /\ last' = Call("clearArchitecture", Void, MustDefine)
            /\ UNCHANGED cpu
       ELSE /\ cpu' = CpuClear(cpu)
            /\ last' = Call("clearArchitecture", Void, Return(Void))
  /\ UNCHANGED <<arch, pc, frame>>

\* setThumb guarded like the concrete-state methods: throws without a model
setThumb_throws(state) ==
  /\ pc = "idle"
  /\ IF ~HasCpu
       THEN /\ last' = Call("setThumb", state, MustDefine)
            /\ UNCHANGED cpu
       ELSE /\ cpu' = CpuSetThumb(cpu, state)
            /\ last' = Call("setThumb", state, Return(Void))
  /\ UNCHANGED <<arch, pc, frame>>

setThumb(state) ==
  /\ pc = "idle"
  /\ IF HasCpu THEN cpu' = CpuSetThumb(cpu, state) ELSE UNCHANGED cpu
  /\ last' = Call("setThumb", state, Return(Void))
  /\ UNCHANGED <<arch, pc, frame>>

setMemoryExclusiveAccess(state) ==
  /\ pc = "idle"
  /\ IF HasCpu
       THEN cpu' = CpuSetMemoryExclusiveAccess(cpu, state)
       ELSE UNCHANGED cpu
  /\ last' = Call("setMemoryExclusiveAccess", state, Return(Void))
  /\ UNCHANGED <<arch, pc, frame>>

\* setConcreteMemoryValue forwarding the address after the one it was given
setConcreteMemoryValue_nextAddr(addr, value) ==
  /\ pc = "idle"
  /\ IF ~HasCpu
       THEN /\ last' = Call("setConcreteMemoryValue", <<addr, value>>, MustDefine)
            /\ UNCHANGED cpu
       ELSE /\ cpu' = CpuSetConcreteMemoryValue(cpu, (addr + 1) % AddrMod,
                                                value)
            /\ last' = Call("setConcreteMemoryValue", <<addr, value>>,
                            Return(Void))
  /\ UNCHANGED <<arch, pc, frame>>

setConcreteMemoryValue(addr, value) ==
  /\ pc = "idle"
  /\ IF ~HasCpu
       THEN /\ last' = Call("setConcreteMemoryValue", <<addr, value>>, MustDefine)
            /\ UNCHANGED cpu
       ELSE /\ cpu' = CpuSetConcreteMemoryValue(cpu, addr, value)
            /\ last' = Call("setConcreteMemoryValue", <<addr, value>>,
                            Return(Void))
  /\ UNCHANGED <<arch, pc, frame>>

setConcreteMemoryValueMem(mem, value) ==
  /\ pc = "idle"
  /\ IF ~HasCpu
       THEN /\ last' = Call("setConcreteMemoryValueMem", <<mem, value>>,
                            MustDefine)
            /\ UNCHANGED cpu
       ELSE /\ cpu' = CpuSetConcreteMemoryValueMem(cpu, mem, value)
            /\ last' = Call("setConcreteMemoryValueMem", <<mem, value>>,
                            Return(Void))
  /\ UNCHANGED <<arch, pc, frame>>

setConcreteMemoryAreaValue(baseAddr, values) ==
  /\ pc = "idle"
  /\ IF ~HasCpu
       THEN /\ last' = Call("setConcreteMemoryAreaValue", <<baseAddr, values>>,
                            MustDefine)
            /\ UNCHANGED cpu
       ELSE /\ cpu' = CpuSetConcreteMemoryAreaValue(cpu, baseAddr, values)
            /\ last' = Call("setConcreteMemoryAreaValue", <<baseAddr, values>>,
                            Return(Void))
  /\ UNCHANGED <<arch, pc, frame>>

\* the overload taking (baseAddr, area, size): the first size bytes of area
setConcreteMemoryAreaValuePtr(baseAddr, area, size) ==
  /\ pc = "idle"
  /\ IF ~HasCpu
       THEN /\ last' = Call("setConcreteMemoryAreaValuePtr",
                            <<baseAddr, area, size>>, MustDefine)
            /\ UNCHANGED cpu
       ELSE /\ cpu' = CpuSetConcreteMemoryAreaValue(cpu, baseAddr,
                                                    SubSeq(area, 1, size))
            /\ last' = Call("setConcreteMemoryAreaValuePtr",
                            <<baseAddr, area, size>>, Return(Void))
  /\ UNCHANGED <<arch, pc, frame>>

setConcreteRegisterValue(reg, value) ==
  /\ pc = "idle"
  /\ IF ~HasCpu
       THEN /\ last' = Call("setConcreteRegisterValue", <<reg, value>>,
                            MustDefine)
            /\ UNCHANGED cpu
       ELSE /\ cpu' = CpuSetConcreteRegisterValue(cpu, reg, value)
            /\ last' = Call("setConcreteRegisterValue", <<reg, value>>,
                            Return(Void))
  /\ UNCHANGED <<arch, pc, frame>>

clearConcreteMemoryValueMem(mem) ==
  /\ pc = "idle"
  /\ IF ~HasCpu
       THEN /\ last' = Call("clearConcreteMemoryValueMem", mem, MustDefine)
            /\ UNCHANGED cpu
       ELSE /\ cpu' = CpuClearConcreteMemoryValue(cpu, mem.addr, mem.size)
            /\ last' = Call("clearConcreteMemoryValueMem", mem, Return(Void))
  /\ UNCHANGED <<arch, pc, frame>>

clearConcreteMemoryValue(baseAddr, size) ==
  /\ pc = "idle"
  /\ IF ~HasCpu
       THEN /\ last' = Call("clearConcreteMemoryValue", <<baseAddr, size>>,
                            MustDefine)
            /\ UNCHANGED cpu
       ELSE /\ cpu' = CpuClearConcreteMemoryValue(cpu, baseAddr, size)
            /\ last' = Call("clearConcreteMemoryValue", <<baseAddr, size>>,
                            Return(Void))
  /\ UNCHANGED <<arch, pc, frame>>

(***************************************************************************)
(* The inputs the calls are tried with                                      *)
(***************************************************************************)
Sizes       == {1, 2}
MemAccesses == [addr : Addr, size : Sizes]
WriteBytes  == {1, 3}
Areas       == {<<1>>, <<3>>, <<1, 3>>, <<3, 1>>}
MemValues   == {LeValue(a) : a \in Areas}

\* the register a write names: the program counter of the model, or any
\* program counter while no model is there to reject it
RegArgs == IF HasCpu THEN {CpuPc(cpu.variant)}
                     ELSE {CpuPc(v) : v \in SupportedTags}

\* the writes of a run leave at most MaxDefined addresses defined
WithinMemory == Cardinality(Defined(cpu')) <= MaxDefined

SetArchitectureCall == \E tag \in Tags, allocOk \in BOOLEAN :
                          setArchitecture(tag, allocOk)

SetThumbCall == \E state \in BOOLEAN : setThumb(state)

SetMemoryExclusiveAccessCall ==
  \E state \in BOOLEAN : setMemoryExclusiveAccess(state)

SetConcreteMemoryValueCall ==
  \E addr \in Addr, value \in WriteBytes :
    setConcreteMemoryValue(addr, value) /\ WithinMemory

SetConcreteMemoryValueMemCall ==
  \E mem \in MemAccesses, value \in MemValues :
    setConcreteMemoryValueMem(mem, value) /\ WithinMemory

SetConcreteMemoryAreaValueCall ==
  \E baseAddr \in Addr, values \in Areas :
    setConcreteMemoryAreaValue(baseAddr, values) /\ WithinMemory

SetConcreteMemoryAreaValuePtrCall ==
  \E baseAddr \in Addr, area \in Areas, size \in Sizes :
    /\ size <= Len(area)
    /\ setConcreteMemoryAreaValuePtr(baseAddr, area, size)
    /\ WithinMemory

SetConcreteRegisterValueCall ==
  \E reg \in RegArgs, value \in RegVals : setConcreteRegisterValue(reg, value)

ClearConcreteMemoryValueMemCall ==
  \E mem \in MemAccesses : clearConcreteMemoryValueMem(mem)

ClearConcreteMemoryValueCall ==
  \E baseAddr \in Addr, size \in Sizes :
    clearConcreteMemoryValue(baseAddr, size)

Next ==
  \/ SetArchitectureCall
  \/ clearArchitecture
  \/ SetThumbCall
  \/ SetMemoryExclusiveAccessCall
  \/ SetConcreteMemoryValueCall
  \/ SetConcreteMemoryValueMemCall
  \/ SetConcreteMemoryAreaValueCall
  \/ SetConcreteMemoryAreaValuePtrCall
  \/ SetConcreteRegisterValueCall
  \/ ClearConcreteMemoryValueMemCall
  \/ ClearConcreteMemoryValueCall

Spec == Init /\ [][Next]_vars


(***************************************************************************)
(* The disassembly driver.  Both loops are const methods: they read arch    *)
(* and cpu and never write them.  A call is started by one action and then  *)
(* runs one iteration of its loop per step, until it returns or throws.     *)
(***************************************************************************)
\* one pass through the body shared by the two loops:
\*   if (!isConcreteMemoryValueDefined(addr)) break;
\*   opcodes = getConcreteMemoryAreaValue(addr, 16);
\*   inst = Instruction(addr, opcodes.data(), opcodes.size());
\*   disassembly(inst); ret.push_back(inst); addr += inst.getSize();
\* An exception of a callee leaves the loop and the method.
\* the break of the body taken although the address is defined: never
MustBreak_never(defined) == FALSE

\* if (!this->isConcreteMemoryValueDefined(addr)) break;
MustBreak(defined) == ~defined.val

\* the loop body ending the run with what was decoded so far when the
\* decoder throws
LoopBody_swallow(f) ==
  LET defined == isConcreteMemoryValueDefined(f.addr, 1) IN
  IF defined.kind = "throw"
    THEN [step |-> "throw", out |-> defined, frame |-> f]
  ELSE IF MustBreak(defined)
    THEN [step |-> "break", out |-> Return(f.ret), frame |-> f]
  ELSE
    LET opcodes == getConcreteMemoryAreaValue(f.addr, LookAhead)
        inst    == Instruction(f.addr, opcodes.val)
        decoded == disassembly(inst)
        g       == [f EXCEPT !.ndecode = @ + 1]
    IN  IF decoded.kind = "throw"
          THEN [step |-> "break", out |-> Return(f.ret), frame |-> g]
          ELSE [step |-> "next", out |-> Return(Append(f.ret, decoded.val)),
                frame |-> [g EXCEPT !.ret = Append(@, decoded.val),
                                    !.addr = (@ + decoded.val.size) % AddrMod]]

LoopBody(f) ==
  LET defined == isConcreteMemoryValueDefined(f.addr, 1) IN
  IF defined.kind = "throw"
    THEN [step |-> "throw", out |-> defined, frame |-> f]
  ELSE IF MustBreak(defined)
    THEN [step |-> "break", out |-> Return(f.ret), frame |-> f]
  ELSE
    LET opcodes == getConcreteMemoryAreaValue(f.addr, LookAhead)
        inst    == Instruction(f.addr, opcodes.val)
        decoded == disassembly(inst)
        g       == [f EXCEPT !.ndecode = @ + 1]
    IN  IF decoded.kind = "throw"
          THEN [step |-> "throw", out |-> decoded, frame |-> g]
          ELSE [step |-> "next", out |-> Return(Append(f.ret, decoded.val)),
                frame |-> [g EXCEPT !.ret = Append(@, decoded.val),
                                    !.addr = (@ + decoded.val.size) % AddrMod]]

\* the do-while looping whatever the last instruction is
LoopAgain_always(ret) == TRUE

\* while (!ret.back().isControlFlow())
LoopAgain(ret) == ~ret[Len(ret)].cf

\* std::vector<Instruction> disassembly(uint64 addr, usize count)
disassemblyCount(addr, count) ==
  /\ pc = "idle"
  /\ pc' = "bounded"
  /\ frame' = [start |-> addr, addr |-> addr, count |-> count, ret |-> <<>>,
               ndecode |-> 0]
  /\ last' = Call("disassemblyCount", <<addr, count>>, Return("running"))
  /\ UNCHANGED <<arch, cpu>>

\* the bounded loop leaving after an instruction classified as control flow
BoundedStep_stopsAtControlFlow ==
  /\ pc = "bounded"
  /\ IF frame.count = 0
       THEN /\ pc' = "idle"
            /\ last' = Call(last.op, last.arg, Return(frame.ret))
            /\ UNCHANGED frame
       ELSE LET b == LoopBody([frame EXCEPT !.count = @ - 1]) IN
            /\ frame' = b.frame
            /\ IF b.step = "next" /\ LoopAgain(b.frame.ret)
                 THEN /\ Len(frame.ret) < MaxRet
                      /\ pc' = "bounded"
                      /\ UNCHANGED last
                 ELSE /\ pc' = "idle"
                      /\ last' = Call(last.op, last.arg, b.out)
  /\ UNCHANGED <<arch, cpu>>

\* one evaluation of `while (count--)` and, when it holds, of the body
BoundedStep ==
  /\ pc = "bounded"
  /\ IF frame.count = 0
       THEN /\ pc' = "idle"
            /\ last' = Call(last.op, last.arg, Return(frame.ret))
            /\ UNCHANGED frame
       ELSE LET b == LoopBody([frame EXCEPT !.count = @ - 1]) IN
            /\ frame' = b.frame
            /\ IF b.step = "next"
                 THEN /\ Len(frame.ret) < MaxRet
                      /\ pc' = "bounded"
                      /\ UNCHANGED last
                 ELSE /\ pc' = "idle"
                      /\ last' = Call(last.op, last.arg, b.out)
  /\ UNCHANGED <<arch, cpu>>

\* std::vector<Instruction> disassembly(uint64 addr)
disassemblyUntilControlFlow(addr) ==
  /\ pc = "idle"
  /\ pc' = "unbounded"
  /\ frame' = [start |-> addr, addr |-> addr, count |-> 0, ret |-> <<>>,
               ndecode |-> 0]
  /\ last' = Call("disassemblyUntilControlFlow", <<addr>>, Return("running"))
  /\ UNCHANGED <<arch, cpu>>

\* one pass through the body of the do-while and one evaluation of its test
UnboundedStep ==
  /\ pc = "unbounded"
  /\ LET b == LoopBody(frame) IN
     /\ frame' = b.frame
     /\ IF b.step = "next" /\ LoopAgain(b.frame.ret)
          THEN /\ Len(b.frame.ret) < MaxRet
               /\ pc' = "unbounded"
               /\ UNCHANGED last
          ELSE /\ pc' = "idle"
               /\ last' = Call(last.op, last.arg, b.out)
  /\ UNCHANGED <<arch, cpu>>

\* the outcome of the do-while entered with the locals f: what the call
\* returns or throws, or "running" when ret outgrows MaxRet
RECURSIVE disassemblyUntilControlFlowFrom(_)
disassemblyUntilControlFlowFrom(f) ==
  LET b == LoopBody(f) IN
  IF b.step = "next" /\ LoopAgain(b.frame.ret)
    THEN IF Len(b.frame.ret) < MaxRet
           THEN disassemblyUntilControlFlowFrom(b.frame)
           ELSE [kind |-> "running", cls |-> "-", msg |-> "-", val |-> Void]
    ELSE b.out

\* what disassembly(addr) yields in the current state
disassemblyUntilControlFlowResult(addr) ==
  disassemblyUntilControlFlowFrom(
    [start |-> addr, addr |-> addr, count |-> 0, ret |-> <<>>, ndecode |-> 0])

DisassemblyCountCall ==
  \E addr \in Addr, count \in 0 .. MaxCount : disassemblyCount(addr, count)

DisassemblyUntilControlFlowCall ==
  \E addr \in Addr : disassemblyUntilControlFlow(addr)

\* the memory images the driver is run on: what writes can leave behind
Images ==
  {m \in [Addr -> Bytes \cup {Undef}] :
     Cardinality({a \in Addr : m[a] # Undef}) <= MaxImage}

\* an object with a model whose memory holds an image, or an object without
\* a model (never given one, or left without one by a failed allocation)
InitDriver ==
  /\ arch \in SupportedTags \cup {ARCH_INVALID}
  /\ \/ /\ arch \in SupportedTags
        /\ cpu \in {[CpuNew(arch) EXCEPT !.mem = m] : m \in Images}
     \/ cpu = NoCpu
  /\ pc = "idle"
  /\ frame = NoFrame
  /\ last = Call("Architecture", Void, Return(Void))

NextDriver ==
  \/ DisassemblyCountCall
  \/ BoundedStep
  \/ DisassemblyUntilControlFlowCall
  \/ UnboundedStep

SpecDriver == InitDriver /\ [][NextDriver]_vars


(***************************************************************************)
(* Properties                                                               *)
(***************************************************************************)
FourSupported == {ARCH_X86_64, ARCH_X86, ARCH_AARCH64, ARCH_ARM32}

\* the error the caller sees when a model is required and none is there
NoArchitecture(out) ==
  /\ out.kind = "throw"
  /\ out.cls = "Architecture"
  /\ out.msg \in {"You must define an architecture.", "CPU undefined."}

UnsupportedArchitecture(out) ==
  /\ out.kind = "throw"
  /\ out.cls = "Architecture"
  /\ out.msg = "Architecture not supported."

AllocationFailure(out) ==
  /\ out.kind = "throw"
  /\ out.cls = "Architecture"
  /\ out.msg = "Not enough memory."

\* C1: a setArchitecture call either leaves the new model active with the new
\* tag recorded, or leaves both the tag and the model (with its concrete
\* state) exactly as they were; in particular a call that fails because the
\* model could not be constructed changes nothing.
C1_ReplacementIsAtomic ==
  [][last'.op = "setArchitecture" =>
       \/ /\ last'.kind = "ok"
          /\ arch' = last'.arg
          /\ cpu'.variant = last'.arg
       \/ /\ last'.kind = "throw"
          /\ arch' = arch
          /\ cpu' = cpu]_vars

\* C2: setArchitecture with a tag that is not one of the four supported ones
\* (the undefined sentinel included) fails with UnsupportedArchitecture and
\* leaves the tag, the model and the model's concrete state as they were.
C2_UnsupportedTagRejected ==
  [][(last'.op = "setArchitecture" /\ last'.arg \notin FourSupported) =>
       /\ UnsupportedArchitecture(last')
       /\ getArchitecture' = getArchitecture
       /\ cpu' = cpu]_vars

\* C2 witness: the undefined sentinel was rejected while a model holding a
\* concrete memory value was active, and the model is still there.
C2_Witness ==
  /\ last.op = "setArchitecture"
  /\ last.arg = ARCH_INVALID
  /\ UnsupportedArchitecture(last)
  /\ HasCpu
  /\ Defined(cpu) # {}

\* C3: after a successful setArchitecture(T), T is one of the four supported
\* tags, getArchitecture() returns T, isValid() is true, and the active model
\* is the variant of T.
C3_SuccessfulSelection ==
  (last.op = "setArchitecture" /\ last.kind = "ok") =>
     /\ last.arg \in FourSupported
     /\ getArchitecture.kind = "ok" /\ getArchitecture.val = last.arg
     /\ isValid.kind = "ok" /\ isValid.val = TRUE
     /\ HasCpu
     /\ cpu.variant = last.arg

\* C3 witness: ARCH_X86 was selected successfully.
C3_Witness ==
  /\ last.op = "setArchitecture"
  /\ last.kind = "ok"
  /\ last.arg = ARCH_X86
  /\ arch = ARCH_X86


(***************************************************************************)
(* Properties of the disassembly driver (SpecDriver)                        *)
(***************************************************************************)
\* what the loops read at address a, and what the decoder makes of it
Window(a) == CpuGetConcreteMemoryAreaValue(cpu, a, LookAhead)

DecodedAt(a) == CpuDisassembly(cpu, Instruction(a, Window(a)))

DefinedAt(a) == CpuIsConcreteMemoryValueDefined(cpu, a, 1)

\* the address after the last instruction of ret, for a run begun at start
AfterRun(start, ret) ==
  IF ret = <<>> THEN start
  ELSE (ret[Len(ret)].addr + ret[Len(ret)].size) % AddrMod

\* ret is the straight-line decoding that begins at start: the first
\* instruction is at start, each later one begins where the one before it
\* ends (modulo the address width), and each is what the decoder yields there
Consecutive(start, ret) ==
  /\ ret # <<>> => ret[1].addr = start
  /\ \A i \in 1 .. (Len(ret) - 1) :
       ret[i + 1].addr = (ret[i].addr + ret[i].size) % AddrMod
  /\ \A i \in 1 .. Len(ret) :
       /\ DecodedAt(ret[i].addr).kind = "ok"
       /\ ret[i] = DecodedAt(ret[i].addr).val

UnboundedEnded ==
  pc = "idle" /\ last.op = "disassemblyUntilControlFlow" /\ HasCpu

BoundedEnded == pc = "idle" /\ last.op = "disassemblyCount" /\ HasCpu

\* C4: the unbounded form treats a zero-size decode of defined memory as a
\* fatal decode error: the iteration that decodes it ends the call with a
\* throw instead of going round the loop again at the same address.
C4_ZeroSizeDecodeIsFatal ==
  [][(/\ pc = "unbounded"
      /\ HasCpu
      /\ DefinedAt(frame.addr)
      /\ DecodedAt(frame.addr).kind = "ok"
      /\ DecodedAt(frame.addr).val.size = 0)
       => (pc' = "idle" /\ last'.kind = "throw")]_vars

\* C5: with a model active, a run of the unbounded form that returns yields
\* the straight-line decoding from addr; no instruction but the last is
\* control flow; if the last one is not control flow (or there is none) the
\* address after the run is undefined; and the call throws only when the
\* decoder throws at a defined address.
C5_UnboundedUntilControlFlow ==
  UnboundedEnded =>
    /\ last.kind = "ok" =>
         /\ Consecutive(last.arg[1], last.val)
         /\ \A i \in 1 .. (Len(last.val) - 1) : ~last.val[i].cf
         /\ (last.val = <<>> \/ ~last.val[Len(last.val)].cf)
              => ~DefinedAt(AfterRun(last.arg[1], last.val))
    /\ last.kind = "throw" =>
         /\ last.cls = "Disassembly"
         /\ DefinedAt(frame.addr)
         /\ DecodedAt(frame.addr).kind = "throw"

\* C5 witness: a run of two instructions, the first of size 2, that ended on
\* the control-flow instruction.
C5_Witness ==
  /\ UnboundedEnded
  /\ last.kind = "ok"
  /\ Len(last.val) = 2
  /\ last.val[1].size = 2
  /\ ~last.val[1].cf
  /\ last.val[2].cf

\* C6: with a model active, the bounded form returns at most count
\* instructions, consecutive by decoded size from addr, at strictly
\* increasing addresses that do not overlap; it returns fewer than count only
\* when the address after the run is undefined, and that is no failure.
C6_BoundedConsecutive ==
  (BoundedEnded /\ last.kind = "ok") =>
    /\ Len(last.val) <= last.arg[2]
    /\ Consecutive(last.arg[1], last.val)
    /\ \A i \in 1 .. (Len(last.val) - 1) :
         last.val[i].addr + last.val[i].size <= last.val[i + 1].addr
    /\ \A i \in 1 .. (Len(last.val) - 1) :
         last.val[i].addr < last.val[i + 1].addr
    /\ Len(last.val) < last.arg[2]
         => ~DefinedAt(AfterRun(last.arg[1], last.val))

\* C7: with a model active and the starting address undefined, either form
\* returns the empty sequence, does not throw, and never invokes the decoder.
C7_UndefinedStartIsEmpty ==
  ((UnboundedEnded \/ BoundedEnded) /\ ~DefinedAt(last.arg[1])) =>
    /\ last.kind = "ok"
    /\ last.val = <<>>
    /\ frame.ndecode = 0

\* C7 witness: the bounded form asked for two instructions at an undefined
\* address of a memory that holds values elsewhere.
C7_Witness ==
  /\ BoundedEnded
  /\ last.arg[2] = 2
  /\ ~DefinedAt(last.arg[1])
  /\ Defined(cpu) # {}
  /\ last.kind = "ok"
  /\ last.val = <<>>

ConcreteMutators ==
  {"setConcreteMemoryValue", "setConcreteMemoryValueMem",
   "setConcreteMemoryAreaValue", "setConcreteMemoryAreaValuePtr",
   "setConcreteRegisterValue", "clearConcreteMemoryValueMem",
   "clearConcreteMemoryValue"}

\* C9: with no model active, every concrete memory/register operation and
\* every identity/register-lookup query throws NoArchitecture, and a failed
\* call leaves the tag and the (absent) model as they were.
C9_RequiresModel ==
  /\ [](~HasCpu =>
          /\ NoArchitecture(getEndianness)
          /\ NoArchitecture(getCpuInstance)
          /\ NoArchitecture(getAllRegisters)
          /\ NoArchitecture(getParentRegisters)
          /\ NoArchitecture(getProgramCounter)
          /\ NoArchitecture(getStackPointer)
          /\ \A id \in AllRegIds :
               /\ NoArchitecture(getRegister(id))
               /\ NoArchitecture(getRegisterByName(id))
               /\ NoArchitecture(getParentRegister(id))
               /\ NoArchitecture(getParentRegisterById(id))
               /\ NoArchitecture(getConcreteRegisterValue(id))
          /\ \A a \in Addr :
               /\ NoArchitecture(getConcreteMemoryValue(a))
               /\ \A n \in Sizes :
                    /\ NoArchitecture(getConcreteMemoryAreaValue(a, n))
                    /\ NoArchitecture(isConcreteMemoryValueDefined(a, n))
          /\ \A m \in MemAccesses :
               /\ NoArchitecture(getConcreteMemoryValueMem(m))
               /\ NoArchitecture(isConcreteMemoryValueDefinedMem(m)))
  /\ [][(~HasCpu /\ last'.op \in ConcreteMutators) =>
          /\ NoArchitecture(last')
          /\ arch' = arch
          /\ cpu' = cpu]_vars

\* C9 witness: a byte write was refused for lack of a model.
C9_Witness ==
  /\ ~HasCpu
  /\ last.op = "setConcreteMemoryValue"
  /\ NoArchitecture(last)

\* C10: in every state in which no model is active (the state before any
\* setArchitecture call included), getArchitecture() returns the undefined
\* sentinel, isValid() is false, the capability queries return false, the
\* size queries return zero, and none of them throws.
C10_DefaultsWithoutModel ==
  ~HasCpu =>
    /\ getArchitecture.kind = "ok" /\ getArchitecture.val = ARCH_INVALID
    /\ isValid.kind = "ok" /\ isValid.val = FALSE
    /\ \A id \in AllRegIds :
         /\ isFlag(id).kind = "ok" /\ isFlag(id).val = FALSE
         /\ isRegister(id).kind = "ok" /\ isRegister(id).val = FALSE
         /\ isRegisterValid(id).kind = "ok" /\ isRegisterValid(id).val = FALSE
    /\ isThumb.kind = "ok" /\ isThumb.val = FALSE
    /\ isMemoryExclusiveAccess.kind = "ok"
    /\ isMemoryExclusiveAccess.val = FALSE
    /\ numberOfRegisters.kind = "ok" /\ numberOfRegisters.val = 0
    /\ gprSize.kind = "ok" /\ gprSize.val = 0
    /\ gprBitSize.kind = "ok" /\ gprBitSize.val = 0

(***************************************************************************)
(* Properties of clearing, replacement and the memory round trip (Spec)     *)
(***************************************************************************)
\* C11: clearArchitecture() with a model of tag T active returns normally,
\* leaves the tag T and the model of variant T active (isValid() is true and
\* a model-requiring query succeeds) and leaves every address undefined;
\* with no model active it throws NoArchitecture and changes nothing.
C11_ClearKeepsIdentity ==
  [][last'.op = "clearArchitecture" =>
       IF HasCpu
         THEN /\ last'.kind = "ok"
              /\ arch' = arch
              /\ HasCpu'
              /\ cpu'.variant = cpu.variant
              /\ isValid'.val = TRUE
              /\ getEndianness'.kind = "ok"
              /\ \A a \in Addr :
                   /\ isConcreteMemoryValueDefined(a, 1)'.kind = "ok"
                   /\ isConcreteMemoryValueDefined(a, 1)'.val = FALSE
         ELSE /\ NoArchitecture(last')
              /\ arch' = arch
              /\ cpu' = cpu]_vars

\* C11 witness: an ARM32 model put into Thumb mode earlier has been cleared
\* and is still the active model.
C11_Witness ==
  /\ last.op = "clearArchitecture"
  /\ last.kind = "ok"
  /\ arch = ARCH_ARM32
  /\ HasCpu
  /\ cpu.thumb
  /\ Defined(cpu) = {}

\* C12: after a successful setArchitecture(B), whatever was written under
\* the model before it (of another tag or of the same tag), getArchitecture()
\* returns B, every address is reported undefined, every register of B reads
\* its power-on value, and looking up (by id or by name) a register that is
\* not in B's table throws an error of the NoArchitecture family.
C12_ReplacementDiscardsState ==
  (last.op = "setArchitecture" /\ last.kind = "ok") =>
    /\ getArchitecture.val = last.arg
    /\ \A a \in Addr :
         /\ isConcreteMemoryValueDefined(a, 1).kind = "ok"
         /\ isConcreteMemoryValueDefined(a, 1).val = FALSE
    /\ \A r \in RegTable(last.arg) :
         /\ getConcreteRegisterValue(r).kind = "ok"
         /\ getConcreteRegisterValue(r).val = 0
    /\ \A id \in AllRegIds \ RegTable(last.arg) :
         /\ getRegister(id).kind = "throw"
         /\ getRegister(id).cls = "Architecture"
         /\ getRegisterByName(id).kind = "throw"
         /\ getRegisterByName(id).cls = "Architecture"

\* C12 witness: ARCH_X86_64 has been selected and the ARCH_X86 program
\* counter no longer resolves.
C12_Witness ==
  /\ last.op = "setArchitecture"
  /\ last.kind = "ok"
  /\ arch = ARCH_X86_64
  /\ getRegister("x86.eip").kind = "throw"
  /\ getRegister("x86.zf").kind = "ok"

\* isConcreteMemoryValueDefined(a, 1) returns true
DefinedNow(a) == HasCpu /\ isConcreteMemoryValueDefined(a, 1).val

\* the addresses [base, base + n) of the address space
Range(base, n) == {(base + i) % AddrMod : i \in 0 .. (n - 1)}

\* the addresses a successful write call names
Written(call) ==
  CASE call.op = "setConcreteMemoryValue" -> {call.arg[1]}
    [] call.op = "setConcreteMemoryValueMem" ->
         Range(call.arg[1].addr, call.arg[1].size)
    [] call.op = "setConcreteMemoryAreaValue" ->
         Range(call.arg[1], Len(call.arg[2]))
    [] call.op = "setConcreteMemoryAreaValuePtr" ->
         Range(call.arg[1], call.arg[3])
    [] OTHER -> {}

\* C13: right after a successful setConcreteMemoryValue(A, V),
\* getConcreteMemoryValue(A) returns V and isConcreteMemoryValueDefined(A, 1)
\* is true; an address is defined only if a write named it since the model
\* was created or last cleared: a new or cleared model has no address
\* defined, and a step defines an address only by a write call that names it.
C13_MemoryRoundTrip ==
  /\ []((last.op = "setConcreteMemoryValue" /\ last.kind = "ok") =>
          /\ getConcreteMemoryValue(last.arg[1]).kind = "ok"
          /\ getConcreteMemoryValue(last.arg[1]).val = last.arg[2]
          /\ isConcreteMemoryValueDefined(last.arg[1], 1).kind = "ok"
          /\ isConcreteMemoryValueDefined(last.arg[1], 1).val = TRUE)
  /\ [][(last'.op \in {"setArchitecture", "clearArchitecture"}
           /\ last'.kind = "ok")
          => \A a \in Addr : ~DefinedNow(a)']_vars
  /\ [][\A a \in Addr :
          (DefinedNow(a)' /\ ~DefinedNow(a))
            => (last'.kind = "ok" /\ a \in Written(last'))]_vars

\* C13 witness: the byte 3 was written at address 2 and is read back.
C13_Witness ==
  /\ last.op = "setConcreteMemoryValue"
  /\ last.kind = "ok"
  /\ last.arg = <<2, 3>>
  /\ getConcreteMemoryValue(2).val = 3
  /\ DefinedNow(2)
  /\ ~DefinedNow(1)

\* a setArchitecture call that failed
FailedSelection(call) == call.op = "setArchitecture" /\ call.kind = "throw"

\* two failed setArchitecture calls in a row, one for a tag the switch
\* handles (its allocation failed) and one for a tag it does not handle
TwoFailureReasons ==
  /\ FailedSelection(last)
  /\ FailedSelection(last')
  /\ (last.arg \in FourSupported) # (last'.arg \in FourSupported)

\* C14 as stated: a setArchitecture failure caused by a failed allocation and
\* one caused by an unsupported tag are never reported with the same
\* exception kind.
C14_DistinctErrorKinds ==
  [][TwoFailureReasons => last'.cls # last.cls]_vars

\* C14 amended: a setArchitecture failure caused by a failed allocation and
\* one caused by an unsupported tag are reported with the same exception kind
\* and differ in their message only: "Not enough memory." for the failed
\* allocation, "Architecture not supported." for the unsupported tag.
C14_DistinctByMessageOnly ==
  /\ [](FailedSelection(last) =>
          IF last.arg \in FourSupported
            THEN AllocationFailure(last) /\ ~UnsupportedArchitecture(last)
            ELSE UnsupportedArchitecture(last) /\ ~AllocationFailure(last))
  /\ [][TwoFailureReasons =>
          /\ last'.cls = last.cls
          /\ last'.cls = "Architecture"
          /\ last'.msg # last.msg]_vars

\* C14 witness: a setArchitecture call for a supported tag failed because the
\* model could not be allocated.
C14_Witness ==
  /\ FailedSelection(last)
  /\ last.arg \in FourSupported
  /\ last.msg = "Not enough memory."

\* C15: in every reachable state a model is active iff the recorded tag is
\* not ARCH_INVALID; whenever isValid() is true no model-requiring operation
\* fails for lack of a model, and the active model's variant matches the tag.
C15_ModelIffValidTag ==
  /\ HasCpu <=> (arch # ARCH_INVALID)
  /\ isValid.val =>
       /\ ~NoArchitecture(getEndianness)
       /\ ~NoArchitecture(getCpuInstance)
       /\ ~NoArchitecture(getProgramCounter)
       /\ \A a \in Addr : ~NoArchitecture(getConcreteMemoryValue(a))
  /\ HasCpu => cpu.variant = arch

\* a bounded or unbounded disassembly call has returned or thrown
DisassemblyEnded ==
  /\ pc = "idle"
  /\ last.op \in {"disassemblyCount", "disassemblyUntilControlFlow"}

\* C16: with no model active, disassembly(inst), disassembly(addr, count) and
\* disassembly(addr) fail with the no-architecture error for every address
\* and every count, count = 0 included, and never return a sequence.
C16_DisassemblyRequiresModel ==
  ~HasCpu =>
    /\ \A a \in Addr, b \in Bytes :
         NoArchitecture(disassembly(Instruction(a, [i \in 1 .. LookAhead |-> b])))
    /\ DisassemblyEnded => NoArchitecture(last)

\* the loop of a multi-instruction disassembly is about to decode at a
\* defined address where the model's decoder fails
DecodeAboutToFail ==
  /\ pc \in {"bounded", "unbounded"}
  /\ pc = "bounded" => frame.count > 0
  /\ HasCpu
  /\ DefinedAt(frame.addr)
  /\ DecodedAt(frame.addr).kind = "throw"

\* C17: when the model's decoder fails at a step of the bounded or of the
\* unbounded disassembly loop, that step ends the call with the decoder's own
\* error (same class, same message); the call returns no sequence, so the
\* instructions decoded before are lost to the caller; the decoder was called
\* once more and is not called again; the tag and the model are unchanged.
C17_DecodeFailurePropagates ==
  /\ [][DecodeAboutToFail =>
          /\ pc' = "idle"
          /\ last'.op = last.op
          /\ last'.arg = last.arg
          /\ last'.kind = "throw"
          /\ last'.cls = DecodedAt(frame.addr).cls
          /\ last'.msg = DecodedAt(frame.addr).msg
          /\ last'.val = Void
          /\ frame'.ndecode = frame.ndecode + 1
          /\ frame'.ret = frame.ret
          /\ arch' = arch
          /\ cpu' = cpu]_vars
  /\ []((DisassemblyEnded /\ HasCpu /\ last.kind = "throw") =>
          /\ last.cls = "Disassembly"
          /\ frame.ndecode = Len(frame.ret) + 1
          /\ DecodedAt(frame.addr).kind = "throw")

\* C17 witness: a bounded run decoded one instruction, then the decoder
\* failed at the second, and the call threw the decoder's error.
C17_Witness ==
  /\ DisassemblyEnded
  /\ last.op = "disassemblyCount"
  /\ HasCpu
  /\ last.kind = "throw"
  /\ last.cls = "Disassembly"
  /\ Len(frame.ret) = 1
  /\ frame.ndecode = 2

\* s is an initial segment of t
IsPrefix(s, t) == Len(s) <= Len(t) /\ SubSeq(t, 1, Len(s)) = s

\* C18: a bounded run ends only when the count is used up or the current
\* address is undefined: an iteration at a defined address that decodes goes
\* on whatever the instruction is, so a run that returned fewer instructions
\* than count stopped at an undefined address; the result of disassembly(addr)
\* on the same memory is a prefix of the result of disassembly(addr, count)
\* whenever count is at least its length.
C18_BoundedIgnoresControlFlow ==
  /\ [][(/\ pc = "bounded"
         /\ frame.count > 0
         /\ HasCpu
         /\ DefinedAt(frame.addr)
         /\ DecodedAt(frame.addr).kind = "ok"
         /\ Len(frame.ret) < MaxRet)
          => /\ pc' = "bounded"
             /\ frame'.ret = Append(frame.ret, DecodedAt(frame.addr).val)
             /\ frame'.count = frame.count - 1]_vars
  /\ []((BoundedEnded /\ last.kind = "ok") =>
          LET start == last.arg[1]
              count == last.arg[2]
              u     == disassemblyUntilControlFlowResult(start)
          IN  /\ Len(last.val) <= count
              /\ Len(last.val) < count => ~DefinedAt(AfterRun(start, last.val))
              /\ (u.kind = "ok" /\ Len(u.val) <= count) => IsPrefix(u.val, last.val))
  /\ []((UnboundedEnded /\ pc = "idle") =>
          /\ disassemblyUntilControlFlowResult(last.arg[1]).kind = last.kind
          /\ disassemblyUntilControlFlowResult(last.arg[1]).cls = last.cls
          /\ disassemblyUntilControlFlowResult(last.arg[1]).val = last.val)

\* C18 witness: disassembly(addr, 2) returned two instructions, the first of
\* them control flow, where disassembly(addr) returns the first alone.
C18_Witness ==
  /\ BoundedEnded
  /\ last.kind = "ok"
  /\ last.arg[2] = 2
  /\ Len(last.val) = 2
  /\ last.val[1].cf
  /\ disassemblyUntilControlFlowResult(last.arg[1]).kind = "ok"
  /\ Len(disassemblyUntilControlFlowResult(last.arg[1]).val) = 1

====
